---- MODULE Spec2Model ----
(***************************************************************************)
(* Model of cursor-chat-browser's conversation export and lookup routes:   *)
(*   src/src/app/api/export/route.ts            (bulk export, sqlite3)     *)
(*   src/unnamed/part_002                       (bulk export,              *)
(*                                               better-sqlite3 revision)  *)
(*   src/src/app/api/conversations/[id]/route.ts (single lookup)           *)
(*   src/src/app/export/page.tsx                 (the export page)         *)
(*                                                                         *)
(* JavaScript values are encoded as follows.                               *)
(*   - an optional value x?: T is a sequence of length 0 (undefined) or 1  *)
(*     (the value): None, Some(v);                                         *)
(*   - a function that can throw returns [kind |-> "return", value |-> v]  *)
(*     or Throw;                                                           *)
(*   - a rational number is kept as numerator and denominator.             *)
(***************************************************************************)
EXTENDS Integers, Sequences, FiniteSets, TLC

VARIABLES
    entries,    \* the workspace directory: one record per directory entry
    request,    \* the request being answered (last one received)
    response,   \* the answer to `request`
    dbLog,      \* the store calls made while answering `request`
    raw,        \* normalizer harness: the raw record handed to a normalizer
    canon,      \* normalizer harness: what the normalizer returned
    page        \* the export page: its React state, what is rendered, its calls

vars == <<entries, request, response, dbLog, raw, canon, page>>

(***************************************************************************)
(* Bounds of the model.                                                    *)
(***************************************************************************)
MaxMsgs == 2        \* messages in a raw thread
MaxBubbles == 3     \* bubbles in a raw chat tab
MaxWorkspaces == 2  \* entries of the workspace directory

(***************************************************************************)
(* JavaScript helpers.                                                     *)
(***************************************************************************)
None == <<>>
Some(v) == <<v>>
IsSome(m) == m # <<>>
The(m) == m[1]

\* a truthy optional string: neither undefined nor ""
TruthyStr(m) == IsSome(m) /\ The(m) # ""

\* the element of a singleton set: Only({F(x) : x \in {e}}) is F(e) with e
\* evaluated once
Only(S) == CHOOSE x \in S : TRUE

Throw == [kind |-> "throw"]
Return(v) == [kind |-> "return", value |-> v]
Returned(r) == r.kind = "return"

\* sequences over S of length at most n
SeqUpTo(S, n) == UNION {[1..k -> S] : k \in 0..n}

RECURSIVE SumSeq(_)
SumSeq(s) == IF s = <<>> THEN 0 ELSE Head(s) + SumSeq(Tail(s))

\* (mutant) an array push in place of Set.add: no deduplication
SetAddNoDedup(s, x) == Append(s, x)

\* Set insertion order: append unless already a member
SetAdd(s, x) == IF \E i \in 1..Len(s) : s[i] = x THEN s ELSE Append(s, x)

\* (mutant) a tie rounded down
MathRoundHalfDown(num, den) ==
    LET q == num \div den
        r == num % den
    IN  IF 2 * r > den THEN q + 1 ELSE q

\* Math.round of the rational num/den (den > 0, num >= 0): the nearest
\* integer, a tie going to the larger one
MathRound(num, den) ==
    LET q == num \div den
        r == num % den
    IN  IF 2 * r >= den THEN q + 1 ELSE q

\* new Date(timestamp).toISOString() for a timestamp within January 1970,
\* as its calendar fields
formatTimestamp(timestamp) ==
    [year   |-> 1970,
     month  |-> 1,
     day    |-> 1 + (timestamp \div 86400000),
     hour   |-> (timestamp % 86400000) \div 3600000,
     minute |-> (timestamp % 3600000) \div 60000,
     second |-> (timestamp % 60000) \div 1000,
     ms     |-> timestamp % 1000]

\* new Date(n).getTime() of an integral number of milliseconds in range
DateGetTime(n) == n

(***************************************************************************)
(* Normalization: src/src/app/api/export/route.ts lines 70-211.            *)
(*                                                                         *)
(* A raw thread (ComposerChat) is                                          *)
(*   [composerId, name, createdAt, lastUpdatedAt, conversation, context]   *)
(* where conversation is [kind |-> "undefined"], [kind |-> "object"] (a    *)
(* truthy value that is no array) or [kind |-> "array", items |-> <<..>>], *)
(* and a raw message is [bubbleId, type, text, timestamp, context].        *)
(* A raw chat tab is [id, tabId, title, timestamp, bubbles] and a bubble   *)
(* is [type, text, timestamp, selections, modelType].                      *)
(* A file selection is kept as its optional path file.uri?.fsPath and a    *)
(* selection as its optional text.                                         *)
(***************************************************************************)
Undefined == [kind |-> "undefined"]
NotArray == [kind |-> "object"]
Array(items) == [kind |-> "array", items |-> items]

\* fileSelections.forEach(file => { if (file.uri?.fsPath) files.add(...) })
RECURSIVE AddFiles(_, _)
AddFiles(files, fileSelections) ==
    IF fileSelections = <<>> THEN files
    ELSE AddFiles(IF TruthyStr(Head(fileSelections))
                    THEN SetAdd(files, The(Head(fileSelections)))
                    ELSE files,
                  Tail(fileSelections))

\* msg.context?.fileSelections, composer.context?.fileSelections
ContextFileSelections(context) ==
    IF IsSome(context) /\ IsSome(The(context).fileSelections)
    THEN The(The(context).fileSelections) ELSE <<>>

RECURSIVE AddMessageFiles(_, _)
AddMessageFiles(files, msgs) ==
    IF msgs = <<>> THEN files
    ELSE AddMessageFiles(AddFiles(files, ContextFileSelections(Head(msgs).context)),
                         Tail(msgs))

extractFilePaths(composer) ==
    LET main == AddFiles(<<>>, ContextFileSelections(composer.context))
    IN  CASE composer.conversation.kind = "undefined" -> Return(main)
          [] composer.conversation.kind = "object" -> Throw  \* forEach is not a function
          [] OTHER -> Return(AddMessageFiles(main, composer.conversation.items))

\* selections?.map(s => s.text).filter(Boolean)
CodeSelections(selections) ==
    IF IsSome(selections)
    THEN Some([i \in 1..Len(SelectSeq(The(selections), TruthyStr)) |->
                The(SelectSeq(The(selections), TruthyStr)[i])])
    ELSE None

\* fileSelections?.map(f => f.uri?.fsPath).filter(Boolean)
MessageFiles(fileSelections) ==
    IF IsSome(fileSelections)
    THEN Some([i \in 1..Len(SelectSeq(The(fileSelections), TruthyStr)) |->
                The(SelectSeq(The(fileSelections), TruthyStr)[i])])
    ELSE None

\* context?.x?.map(...) of a field that is copied as it is
CopyField(field) == field

\* (mutant) a third role for an unrecognized discriminant
ComposerRoleThird(type) ==
    IF type = 1 THEN "user" ELSE IF type = 2 THEN "assistant" ELSE "system"

ComposerRole(type) == IF type = 1 THEN "user" ELSE "assistant"

ComposerMessage(msg) ==
    LET ctx == msg.context
    IN  [id |-> msg.bubbleId,
         role |-> ComposerRole(msg.type),
         content |-> msg.text,
         timestamp |-> msg.timestamp,
         formattedTimestamp |-> formatTimestamp(msg.timestamp),
         context |->
            [codeSelections |-> IF IsSome(ctx) THEN CodeSelections(The(ctx).selections) ELSE None,
             files |-> IF IsSome(ctx) THEN MessageFiles(The(ctx).fileSelections) ELSE None,
             folders |-> IF IsSome(ctx) THEN CopyField(The(ctx).folderSelections) ELSE None,
             docs |-> IF IsSome(ctx) THEN CopyField(The(ctx).selectedDocs) ELSE None,
             commits |-> IF IsSome(ctx) THEN CopyField(The(ctx).selectedCommits) ELSE None],
         metadata |-> [bubbleId |-> msg.bubbleId]]

\* messages.filter(m => m.role === role).length
CountRole(messages, role) ==
    Len(SelectSeq(messages, LAMBDA m : m.role = role))

ContentLength(m) == Len(The(m.content))

\* Math.round(messages.length > 0 ? sum of content lengths / length : 0)
AverageMessageLength(messages) ==
    IF Len(messages) > 0
    THEN MathRound(SumSeq([i \in 1..Len(messages) |-> ContentLength(messages[i])]), Len(messages))
    ELSE 0

\* m.content.length of a message whose content is undefined is a TypeError
ContentThrows(messages) ==
    \E i \in 1..Len(messages) : ~IsSome(messages[i].content)

\* allFiles.length > 0 || (composer.context?.selections && selections.length > 0):
\* true, false, or undefined when the right operand is undefined
ComposerHasCodeContext(allFiles, context) ==
    IF Len(allFiles) > 0 THEN Some(TRUE)
    ELSE IF IsSome(context) /\ IsSome(The(context).selections)
         THEN Some(Len(The(The(context).selections)) > 0)
         ELSE None

processComposerChat(composer, workspaceId, workspaceFolder) ==
    LET conv == composer.conversation
        messages ==
            IF conv.kind = "array" /\ Len(conv.items) > 0
            THEN [i \in 1..Len(conv.items) |-> ComposerMessage(conv.items[i])] ELSE <<>>
        allFiles == extractFilePaths(composer)
    IN  IF ~Returned(allFiles) \/ ContentThrows(messages) THEN Throw
        ELSE Return(
          [id |-> composer.composerId,
           type |-> "composer",
           title |-> IF TruthyStr(composer.name) THEN The(composer.name) ELSE "Untitled",
           messages |-> messages,
           createdAt |-> composer.createdAt,
           lastUpdatedAt |-> composer.lastUpdatedAt,
           formattedCreatedAt |-> formatTimestamp(composer.createdAt),
           formattedLastUpdatedAt |-> formatTimestamp(composer.lastUpdatedAt),
           workspace |-> [id |-> workspaceId, folder |-> workspaceFolder],
           summary |->
             [messageCount |-> Len(messages),
              userMessageCount |-> CountRole(messages, "user"),
              assistantMessageCount |-> CountRole(messages, "assistant"),
              hasCodeContext |-> ComposerHasCodeContext(allFiles.value, composer.context),
              filesReferenced |-> allFiles.value,
              averageMessageLength |-> AverageMessageLength(messages)]])

\* (mutant) a bubble type that is neither marker is passed through
ChatRolePassThrough(type) ==
    IF type = "ai" THEN "assistant" ELSE IF type = "user" THEN "user" ELSE type

ChatRole(type) == IF type = "ai" THEN "assistant" ELSE "user"

\* (mutant) empty bubbles are not dropped
KeepBubbleAlways(bubble) == IsSome(bubble.text)

\* if (bubble.text)
KeepBubble(bubble) == TruthyStr(bubble.text)

\* (mutant) the bubbles are visited from the last to the first
KeptBubblesBackwards(bubbles) ==
    SelectSeq([i \in 1..Len(bubbles) |-> Len(bubbles) + 1 - i],
              LAMBDA i : KeepBubble(bubbles[i]))

\* the one-based positions of the bubbles that become messages
KeptBubbles(bubbles) ==
    SelectSeq([i \in 1..Len(bubbles) |-> i], LAMBDA i : KeepBubble(bubbles[i]))

\* route.ts line 169: timestamp + (index * 1000)
BubbleTimestamp(bubble, timestamp, index) == timestamp + (index * 1000)

\* part_002 line 168: bubble.timestamp || (timestamp + index * 1000)
BubbleTimestampBs3(bubble, timestamp, index) ==
    IF IsSome(bubble.timestamp) /\ The(bubble.timestamp) # 0
    THEN The(bubble.timestamp)
    ELSE timestamp + index * 1000

\* (mutant) the id is the tab id alone, without the bubble's index
ChatMessageTabId(chatTab, bubble, index, timestamp) ==
    [id |-> <<chatTab.id, 0>>,
     role |-> ChatRole(bubble.type),
     content |-> bubble.text,
     timestamp |-> BubbleTimestamp(bubble, timestamp, index),
     formattedTimestamp |-> formatTimestamp(BubbleTimestamp(bubble, timestamp, index)),
     context |-> [codeSelections |-> CodeSelections(bubble.selections)],
     metadata |-> [modelType |-> bubble.modelType]]

ChatMessage(chatTab, bubble, index, timestamp) ==
    [id |-> <<chatTab.id, index>>,
     role |-> ChatRole(bubble.type),
     content |-> bubble.text,
     timestamp |-> BubbleTimestamp(bubble, timestamp, index),
     formattedTimestamp |-> formatTimestamp(BubbleTimestamp(bubble, timestamp, index)),
     context |-> [codeSelections |-> CodeSelections(bubble.selections)],
     metadata |-> [modelType |-> bubble.modelType]]

ChatMessageBs3(chatTab, bubble, index, timestamp) ==
    [id |-> <<chatTab.id, index>>,
     role |-> ChatRole(bubble.type),
     content |-> bubble.text,
     timestamp |-> BubbleTimestampBs3(bubble, timestamp, index),
     formattedTimestamp |-> formatTimestamp(BubbleTimestampBs3(bubble, timestamp, index)),
     context |-> <<>>,
     metadata |-> <<>>]

\* chatTab.bubbles.some(b => b.selections && b.selections.length > 0)
ChatHasCodeContext(bubbles) ==
    \E i \in 1..Len(bubbles) :
        IsSome(bubbles[i].selections) /\ Len(The(bubbles[i].selections)) > 0

ChatConversation(chatTab, workspaceId, workspaceFolder, timestamp, messages, hasCodeContext) ==
    [id |-> chatTab.id,
     type |-> "chat",
     title |-> chatTab.title,
     messages |-> messages,
     createdAt |-> timestamp,
     lastUpdatedAt |-> timestamp,
     formattedCreatedAt |-> formatTimestamp(timestamp),
     formattedLastUpdatedAt |-> formatTimestamp(timestamp),
     workspace |-> [id |-> workspaceId, folder |-> workspaceFolder],
     summary |->
       [messageCount |-> Len(messages),
        userMessageCount |-> CountRole(messages, "user"),
        assistantMessageCount |-> CountRole(messages, "assistant"),
        hasCodeContext |-> Some(hasCodeContext),
        filesReferenced |-> <<>>,
        averageMessageLength |-> AverageMessageLength(messages)]]

processChatTab(chatTab, workspaceId, workspaceFolder) ==
    LET timestamp == DateGetTime(chatTab.timestamp)
        kept == KeptBubbles(chatTab.bubbles)
        messages == [k \in 1..Len(kept) |->
                        ChatMessage(chatTab, chatTab.bubbles[kept[k]], kept[k] - 1, timestamp)]
    IN  Return(ChatConversation(chatTab, workspaceId, workspaceFolder, timestamp,
                                messages, ChatHasCodeContext(chatTab.bubbles)))

\* the better-sqlite3 revision of the export route
processChatTabBs3(chatTab, workspaceId, workspaceFolder) ==
    LET timestamp == chatTab.timestamp
        kept == KeptBubbles(chatTab.bubbles)
        messages == [k \in 1..Len(kept) |->
                        ChatMessageBs3(chatTab, chatTab.bubbles[kept[k]], kept[k] - 1, timestamp)]
    IN  Return(ChatConversation(chatTab, workspaceId, workspaceFolder, timestamp,
                                messages, FALSE))

(***************************************************************************)
(* Raw records the normalizers are applied to.                             *)
(***************************************************************************)
FileSelectionLists ==
    {<<Some("/a")>>, <<Some("/a"), Some("/a")>>, <<Some("/b")>>,
     <<None, Some("/b")>>, <<>>}

MsgContext(selections, fileSelections, folderSelections, selectedDocs, selectedCommits) ==
    [selections |-> selections, fileSelections |-> fileSelections,
     folderSelections |-> folderSelections, selectedDocs |-> selectedDocs,
     selectedCommits |-> selectedCommits]

MsgContexts ==
    {MsgContext(None, Some(fl), None, None, None) : fl \in FileSelectionLists}
    \cup {MsgContext(Some(<<Some("sel"), Some(""), None>>), None,
                     Some(<<"/d", "/d">>),
                     Some(<<[title |-> "doc", content |-> "text"]>>),
                     Some(<<[hash |-> "c0ffee", message |-> "fix"]>>))}

Message(type, text, timestamp, context) ==
    [bubbleId |-> Some("m"), type |-> type, text |-> text,
     timestamp |-> timestamp, context |-> context]

MsgTypes == {1, 2, 3}
MsgTexts == {None, Some(""), Some("Hi"), Some("Hello")}

RawMessages ==
    {Message(ty, tx, 100, None) : ty \in MsgTypes, tx \in MsgTexts}
    \cup {Message(1, Some("Hi"), 200, Some(c)) : c \in MsgContexts}

ThreadContext(fileSelections, selections) ==
    [fileSelections |-> fileSelections, selections |-> selections]

ThreadContexts ==
    {None,
     Some(ThreadContext(Some(<<Some("/a")>>), None)),
     Some(ThreadContext(Some(<<Some("/b"), Some("/a")>>), Some(<<>>))),
     Some(ThreadContext(None, Some(<<Some("s")>>)))}

Conversations ==
    {Undefined, NotArray} \cup {Array(items) : items \in SeqUpTo(RawMessages, MaxMsgs)}

Thread(composerId, name, lastUpdatedAt, conversation, context) ==
    [composerId |-> Some(composerId), name |-> name, createdAt |-> 1,
     lastUpdatedAt |-> lastUpdatedAt, conversation |-> conversation,
     context |-> context]

RawThreads ==
    {Thread("a", name, 2, conv, ctx) :
        name \in {None, Some("A")}, conv \in Conversations, ctx \in ThreadContexts}

Bubble(type, text, timestamp, selections) ==
    [type |-> type, text |-> text, timestamp |-> timestamp,
     selections |-> selections, modelType |-> IF type = "ai" THEN Some("gpt") ELSE None]

RawBubbles ==
    {Bubble(ty, tx, ts, None) :
        ty \in {"ai", "user", "system"}, tx \in {Some(""), Some("Hi")},
        ts \in {None, Some(5000)}}
    \cup {Bubble("user", tx, None, Some(sel)) :
            tx \in {None, Some("Hello")}, sel \in {<<>>, <<Some("x")>>}}

Tab(id, tabId, title, timestamp, bubbles) ==
    [id |-> id, tabId |-> tabId, title |-> title, timestamp |-> timestamp,
     bubbles |-> bubbles]

RawTabs ==
    {Tab(Some("t"), Some("t"), "T", 1000, bubbles) :
        bubbles \in SeqUpTo(RawBubbles, MaxBubbles)}

Folders == {None, Some("/proj")}

(***************************************************************************)
(* The export page, src/src/app/export/page.tsx, as it is when loaded:     *)
(* the three useState values, the disabled attribute the buttons were      *)
(* last rendered with, the handleExport calls that have started and not    *)
(* finished, and how the last finished call ended.                         *)
(***************************************************************************)
PageLoaded ==
    [isExporting |-> FALSE, exportData |-> None, error |-> None,
     disabled |-> FALSE, calls |-> <<>>, outcome |-> "none"]

(***************************************************************************)
(* The normalizers applied to one raw record.                              *)
(***************************************************************************)
NoRaw == [kind |-> "none"]
NotRun == [by |-> "none"]

InitNormalize ==
    /\ raw \in {[kind |-> "thread", value |-> t] : t \in RawThreads}
               \cup {[kind |-> "tab", value |-> t] : t \in RawTabs}
    /\ canon = NotRun
    /\ page = PageLoaded
    /\ entries = <<>>
    /\ request = [kind |-> "none"]
    /\ response = [kind |-> "none"]
    /\ dbLog = <<>>

NormalizeComposer ==
    /\ raw.kind = "thread"
    /\ \E folder \in Folders :
         canon' = [by |-> "processComposerChat",
                   result |-> processComposerChat(raw.value, "w1", folder)]
    /\ UNCHANGED <<raw, entries, request, response, dbLog, page>>

NormalizeChatTab ==
    /\ raw.kind = "tab"
    /\ \E folder \in Folders :
         canon' = [by |-> "processChatTab",
                   result |-> processChatTab(raw.value, "w1", folder)]
    /\ UNCHANGED <<raw, entries, request, response, dbLog, page>>

NormalizeChatTabBs3 ==
    /\ raw.kind = "tab"
    /\ \E folder \in Folders :
         canon' = [by |-> "processChatTabBs3",
                   result |-> processChatTabBs3(raw.value, "w1", folder)]
    /\ UNCHANGED <<raw, entries, request, response, dbLog, page>>

NextNormalize == NormalizeComposer \/ NormalizeChatTab \/ NormalizeChatTabBs3

SpecNormalize == InitNormalize /\ [][NextNormalize]_vars

\* a normalizer has returned a canonical conversation
HasCanon == canon.by # "none" /\ Returned(canon.result)
Canon == canon.result.value

(***************************************************************************)
(* The workspace directory and its stores.                                 *)
(*                                                                         *)
(* An entry of the directory is                                            *)
(*   [name, isDirectory, store, workspaceJson, composerData, chatData]     *)
(* store: "missing" (no state.vscdb), "cantopen" (opening it fails),       *)
(*        "notadb" (it opens, every query on it fails) or "ok";            *)
(* workspaceJson: [kind |-> "missing"] or [kind |-> "json", folder |-> f]; *)
(* composerData, chatData: the value stored under the key:                 *)
(*   [kind |-> "none"] (no row, or an empty value), [kind |-> "malformed"] *)
(*   (JSON.parse throws) or [kind |-> "json", allComposers |-> optional    *)
(*   list] / [kind |-> "json", tabs |-> optional list].                    *)
(***************************************************************************)
NoBlob == [kind |-> "none"]
Malformed == [kind |-> "malformed"]
ComposerData(allComposers) == [kind |-> "json", allComposers |-> allComposers]
ChatData(tabs) == [kind |-> "json", tabs |-> tabs]
NoJson == [kind |-> "missing"]
WorkspaceJson(folder) == [kind |-> "json", folder |-> folder]

COMPOSER_KEY == "composer.composerData"
CHAT_KEY == "workbench.panel.aichat.view.aichat.chatdata"

\* the store calls a handler makes
OpenCall(name) == [op |-> "open", ws |-> name]
GetCall(name, key) == [op |-> "get", ws |-> name, key |-> key]
CloseCall(name) == [op |-> "close", ws |-> name]

(***************************************************************************)
(* Bulk export: GET of src/src/app/api/export/route.ts (lines 213-304) and *)
(* of its better-sqlite3 revision src/unnamed/part_002 (lines 207-295).    *)
(***************************************************************************)
\* (mutant) the flag is true only when absent or the literal "true"
IncludeFlagOnlyTrue(param) == param = None \/ param = Some("true")

\* searchParams.get(name) !== 'false'
IncludeFlag(param) == param # Some("false")

\* (mutant) the directory name stands in for a folder that cannot be read
ReadWorkspaceFolderNamed(entry) ==
    IF entry.workspaceJson.kind = "json" THEN entry.workspaceJson.folder
    ELSE Some(entry.name)

\* JSON.parse(await fs.readFile(workspaceJsonPath)).folder, undefined on failure
ReadWorkspaceFolder(entry) ==
    IF entry.workspaceJson.kind = "json" THEN entry.workspaceJson.folder ELSE None

\* (mutant) a value that cannot be read or parsed counts as no value
ReadBlobLenient(entry, blob) ==
    IF entry.store = "notadb" \/ blob.kind \in {"none", "malformed"}
    THEN Return(None) ELSE Return(Some(blob))

\* db.get(...) of a key and JSON.parse of its value:
\* Throw, Return(None) when there is no value, Return(Some(data)) otherwise
ReadBlob(entry, blob) ==
    CASE entry.store = "notadb" -> Throw
      [] blob.kind = "none" -> Return(None)
      [] blob.kind = "malformed" -> Throw
      [] OTHER -> Return(Some(blob))

\* the results of a forEach that pushes f(x): Throw if one call throws
Collect(results) ==
    IF \E i \in 1..Len(results) : ~Returned(results[i]) THEN Throw
    ELSE Return([i \in 1..Len(results) |-> results[i].value])

\* if (includeComposers) { ... } of one workspace
ExportComposers(entry, workspaceFolder) ==
    LET data == ReadBlob(entry, entry.composerData)
    IN  IF ~Returned(data) THEN Throw
        ELSE IF ~IsSome(data.value) THEN Return(<<>>)
        ELSE IF ~IsSome(The(data.value).allComposers) THEN Throw  \* forEach of undefined
        ELSE Collect([i \in 1..Len(The(The(data.value).allComposers)) |->
                        processComposerChat(The(The(data.value).allComposers)[i],
                                            entry.name, workspaceFolder)])

\* if (includeChats) { ... } of one workspace
ExportChats(entry, workspaceFolder, bs3) ==
    LET data == ReadBlob(entry, entry.chatData)
    IN  IF ~Returned(data) THEN Throw
        ELSE IF ~IsSome(data.value) THEN Return(<<>>)
        ELSE IF ~IsSome(The(data.value).tabs) THEN Return(<<>>)   \* if (chatData.tabs)
        ELSE Collect([i \in 1..Len(The(The(data.value).tabs)) |->
                        IF bs3
                        THEN processChatTabBs3(The(The(data.value).tabs)[i],
                                               entry.name, workspaceFolder)
                        ELSE processChatTab(The(The(data.value).tabs)[i],
                                            entry.name, workspaceFolder)])

\* one iteration of for (const entry of entries):
\* [kind, conversations pushed, store calls made]
ExportEntry(entry, includeChats, includeComposers, bs3) ==
    LET folder == ReadWorkspaceFolder(entry)
        composers == IF includeComposers THEN ExportComposers(entry, folder) ELSE Return(<<>>)
        chats == IF includeChats THEN ExportChats(entry, folder, bs3) ELSE Return(<<>>)
        opened == <<OpenCall(entry.name)>>
        afterComposers ==
            opened \o (IF includeComposers THEN <<GetCall(entry.name, COMPOSER_KEY)>> ELSE <<>>)
        afterChats ==
            afterComposers \o (IF includeChats THEN <<GetCall(entry.name, CHAT_KEY)>> ELSE <<>>)
    IN  IF ~entry.isDirectory \/ entry.store = "missing"
        THEN [kind |-> "return", conversations |-> <<>>, calls |-> <<>>]
        ELSE IF entry.store = "cantopen"
        THEN [kind |-> "throw", conversations |-> <<>>, calls |-> <<>>]
        ELSE IF ~Returned(composers)
        THEN [kind |-> "throw", conversations |-> <<>>, calls |-> afterComposers]
        ELSE IF ~Returned(chats)
        THEN [kind |-> "throw", conversations |-> composers.value, calls |-> afterChats]
        ELSE [kind |-> "return", conversations |-> composers.value \o chats.value,
              calls |-> Append(afterChats, CloseCall(entry.name))]

\* the loop body's effect on the conversations pushed and the calls made so far
ExportPush(sofar, step) ==
    [kind |-> step.kind,
     conversations |-> sofar.conversations \o step.conversations,
     calls |-> sofar.calls \o step.calls]

\* the loop over the entries from position i on; a throw leaves the loop
RECURSIVE ExportLoop(_, _, _, _, _, _)
ExportLoop(dir, i, includeChats, includeComposers, bs3, sofar) ==
    IF i > Len(dir) \/ sofar.kind = "throw" THEN sofar
    ELSE Only({ExportLoop(dir, i + 1, includeChats, includeComposers, bs3, next) :
                 next \in {ExportPush(sofar,
                                      ExportEntry(dir[i], includeChats, includeComposers, bs3))}})

\* (mutant) the comparator's order without stability: of two conversations
\* that compare equal the later one comes first
SortRankUnstable(conversations, i) ==
    Cardinality({j \in 1..Len(conversations) :
                    \/ conversations[j].lastUpdatedAt - conversations[i].lastUpdatedAt > 0
                    \/ /\ conversations[j].lastUpdatedAt - conversations[i].lastUpdatedAt = 0
                       /\ j > i})

\* Array.prototype.sort under (a, b) => b.lastUpdatedAt - a.lastUpdatedAt is
\* stable: before conversation i come those the comparator puts before it and
\* those that compare equal to it and precede it in the array
SortRank(conversations, i) ==
    Cardinality({j \in 1..Len(conversations) :
                    \/ conversations[j].lastUpdatedAt - conversations[i].lastUpdatedAt > 0
                    \/ /\ conversations[j].lastUpdatedAt - conversations[i].lastUpdatedAt = 0
                       /\ j < i})

SortByLastUpdated(conversations) ==
    [r \in 1..Len(conversations) |->
        conversations[CHOOSE i \in 1..Len(conversations) : SortRank(conversations, i) = r - 1]]

\* (mutant) the reduce adds one per conversation
TotalMessagesPerConversation(conversations) ==
    SumSeq([i \in 1..Len(conversations) |-> 1])

\* conversations.reduce((sum, conv) => sum + conv.messages.length, 0)
TotalMessages(conversations) ==
    SumSeq([i \in 1..Len(conversations) |-> Len(conversations[i].messages)])

\* (mutant) every exported conversation is stamped with the time of the export
ExportDataTouched(conversations, now) ==
    [exportedAt |-> formatTimestamp(now),
     exportedAtTimestamp |-> now,
     totalConversations |-> Len(conversations),
     totalMessages |-> TotalMessages(conversations),
     conversations |-> [i \in 1..Len(conversations) |->
                          [conversations[i] EXCEPT !.lastUpdatedAt = now]],
     metadata |-> [exportVersion |-> "1.0.0", source |-> "cursor-chat-browser",
                   description |->
                     "Exported conversation data for semantic search and pattern analysis"]]

ExportData(conversations, now) ==
    [exportedAt |-> formatTimestamp(now),
     exportedAtTimestamp |-> now,
     totalConversations |-> Len(conversations),
     totalMessages |-> TotalMessages(conversations),
     conversations |-> conversations,
     metadata |-> [exportVersion |-> "1.0.0", source |-> "cursor-chat-browser",
                   description |->
                     "Exported conversation data for semantic search and pattern analysis"]]

ExportResponse(loop, now) ==
    IF loop.kind = "throw"
    THEN [response |-> [status |-> 500, body |-> [error |-> "Failed to export data"]],
          calls |-> loop.calls]
    ELSE [response |-> [status |-> 200,
                        body |-> ExportData(SortByLastUpdated(loop.conversations), now)],
          calls |-> loop.calls]

\* the handler over directory listing dir: [response, calls]
ExportGET(dir, includeChatsParam, includeComposersParam, bs3, now) ==
    Only({ExportResponse(loop, now) :
            loop \in {ExportLoop(dir, 1, IncludeFlag(includeChatsParam),
                                 IncludeFlag(includeComposersParam), bs3,
                                 [kind |-> "return", conversations |-> <<>>, calls |-> <<>>])}})

(***************************************************************************)
(* Single lookup: GET of src/src/app/api/conversations/[id]/route.ts.      *)
(***************************************************************************)
\* (mutant) the workspace directory is tested in place of its store file
StoreExistsDirectory(dir, workspaceId) ==
    \E i \in 1..Len(dir) : dir[i].name = workspaceId /\ dir[i].isDirectory

\* existsSync(path.join(workspacePath, workspaceId, 'state.vscdb'))
StoreExists(dir, workspaceId) ==
    \E i \in 1..Len(dir) :
        dir[i].name = workspaceId /\ dir[i].isDirectory /\ dir[i].store # "missing"

EntryOf(dir, workspaceId) ==
    dir[CHOOSE i \in 1..Len(dir) : dir[i].name = workspaceId]

\* Array.prototype.find: the first of the elements that satisfy the test
\* (hits, in list order), if any
Find(hits) == IF hits = <<>> THEN None ELSE Some(Head(hits))

\* (mutant) the message list is returned as stored
EnsureConversationArrayNot(composer) == composer

\* if (!Array.isArray(composer.conversation)) composer.conversation = []
EnsureConversationArray(composer) ==
    IF composer.conversation.kind = "array" THEN composer
    ELSE [composer EXCEPT !.conversation = Array(<<>>)]

LookupError(status, error) == [status |-> status, body |-> [error |-> error]]

LookupErrorMessage(status, error, message) ==
    [status |-> status, body |-> [error |-> error, message |-> message]]

\* `No ${type} conversation found with ID ${params.id} in workspace ${workspaceId}`,
\* the template's pieces in order
NotFoundMessage(type, id, workspaceId) ==
    <<"No ", type, " conversation found with ID ", id, " in workspace ", workspaceId>>

\* error.message of what the try block threw: the library's text for a store
\* that cannot be opened, a file that is no database, a value that is no
\* JSON, and a find on an absent collection
ErrorMessage(entry, blob) ==
    CASE entry.store = "cantopen" -> "SQLITE_CANTOPEN: unable to open database file"
      [] entry.store = "notadb" -> "SQLITE_NOTADB: file is not a database"
      [] blob.kind = "malformed" -> "Unexpected token in JSON"
      [] OTHER -> "Cannot read properties of undefined (reading 'find')"

LookupSuccess(conversation, id, type, workspaceId) ==
    [status |-> 200,
     body |-> [success |-> TRUE,
               conversation |-> conversation,
               metadata |-> [id |-> id, type |-> type, workspaceId |-> workspaceId]]]

\* (mutant) the id is searched among the threads and the chat tabs alike,
\* whatever the requested type
LookupInStoreAnyType(entry, id, type) ==
    LET threads == IF entry.composerData.kind = "json" /\ IsSome(entry.composerData.allComposers)
                   THEN SelectSeq(The(entry.composerData.allComposers),
                                  LAMBDA c : c.composerId = Some(id))
                   ELSE <<>>
        tabs == IF entry.chatData.kind = "json" /\ IsSome(entry.chatData.tabs)
                THEN SelectSeq(The(entry.chatData.tabs), LAMBDA t : t.tabId = Some(id))
                ELSE <<>>
        calls == <<OpenCall(entry.name), GetCall(entry.name, COMPOSER_KEY),
                   GetCall(entry.name, CHAT_KEY), CloseCall(entry.name)>>
    IN  IF threads # <<>>
        THEN [response |-> LookupSuccess(EnsureConversationArray(Head(threads)),
                                         Head(threads).composerId, type, entry.name),
              calls |-> calls]
        ELSE IF tabs # <<>>
        THEN [response |-> LookupSuccess(Head(tabs), Head(tabs).tabId, type, entry.name),
              calls |-> calls]
        ELSE [response |-> LookupErrorMessage(404, "Conversation not found",
                                              NotFoundMessage(type, id, entry.name)),
              calls |-> calls]

\* the try block, once the store is known to exist
LookupInStore(entry, id, type) ==
    LET blob == IF type = "composer" THEN entry.composerData ELSE entry.chatData
        key == IF type = "composer" THEN COMPOSER_KEY ELSE CHAT_KEY
        data == ReadBlob(entry, blob)
        opened == <<OpenCall(entry.name), GetCall(entry.name, key)>>
        failed == [response |-> LookupErrorMessage(500, "Failed to fetch conversation",
                                                   ErrorMessage(entry, blob)),
                   calls |-> opened]
        notFound == [response |-> LookupErrorMessage(404, "Conversation not found",
                                                     NotFoundMessage(type, id, entry.name)),
                     calls |-> Append(opened, CloseCall(entry.name))]
    IN  IF entry.store = "cantopen"
        THEN [response |-> failed.response, calls |-> <<>>]
        ELSE IF ~Returned(data) THEN failed
        ELSE IF ~IsSome(data.value) THEN notFound
        ELSE IF type = "composer"
        THEN IF ~IsSome(The(data.value).allComposers) THEN failed   \* find of undefined
             ELSE LET composer == Find(SelectSeq(The(The(data.value).allComposers),
                                                 LAMBDA c : c.composerId = Some(id)))
                  IN  IF IsSome(composer)
                      THEN [response |->
                               LookupSuccess(EnsureConversationArray(The(composer)),
                                             The(composer).composerId, "composer", entry.name),
                            calls |-> Append(opened, CloseCall(entry.name))]
                      ELSE notFound
        ELSE IF ~IsSome(The(data.value).tabs) THEN failed           \* find of undefined
             ELSE LET chat == Find(SelectSeq(The(The(data.value).tabs),
                                             LAMBDA t : t.tabId = Some(id)))
                  IN  IF IsSome(chat)
                      THEN [response |-> LookupSuccess(The(chat), The(chat).tabId, "chat",
                                                       entry.name),
                            calls |-> Append(opened, CloseCall(entry.name))]
                      ELSE notFound

\* (mutant) the type is validated once the store has been resolved and opened
LookupGETValidatesLate(dir, id, workspaceIdParam, typeParam) ==
    IF ~TruthyStr(workspaceIdParam) \/ ~TruthyStr(typeParam)
    THEN [response |-> LookupErrorMessage(400, "Missing required parameters",
                          "Both workspaceId and type (chat|composer) are required"),
          calls |-> <<>>]
    ELSE IF ~StoreExists(dir, The(workspaceIdParam))
    THEN [response |-> LookupError(404, "Workspace not found"), calls |-> <<>>]
    ELSE IF The(typeParam) # "chat" /\ The(typeParam) # "composer"
    THEN [response |-> LookupErrorMessage(400, "Invalid type",
                          "type must be either \"chat\" or \"composer\""),
          calls |-> <<OpenCall(The(workspaceIdParam))>>]
    ELSE LookupInStore(EntryOf(dir, The(workspaceIdParam)), id, The(typeParam))

\* the handler: [response, calls]
LookupGET(dir, id, workspaceIdParam, typeParam) ==
    IF ~TruthyStr(workspaceIdParam) \/ ~TruthyStr(typeParam)
    THEN [response |-> LookupErrorMessage(400, "Missing required parameters",
                          "Both workspaceId and type (chat|composer) are required"),
          calls |-> <<>>]
    ELSE IF The(typeParam) # "chat" /\ The(typeParam) # "composer"
    THEN [response |-> LookupErrorMessage(400, "Invalid type",
                          "type must be either \"chat\" or \"composer\""),
          calls |-> <<>>]
    ELSE IF ~StoreExists(dir, The(workspaceIdParam))
    THEN [response |-> LookupError(404, "Workspace not found"), calls |-> <<>>]
    ELSE LookupInStore(EntryOf(dir, The(workspaceIdParam)), id, The(typeParam))

(***************************************************************************)
(* The server: a workspace directory, fixed while requests are answered,   *)
(* and one request at a time: a handler runs when the server is idle and   *)
(* leaves its response, and the server is idle again once it is sent.      *)
(***************************************************************************)
TA == Thread("a", Some("A"), 2,
             Array(<<Message(1, Some("Hi"), 100, None), Message(2, Some("Hello"), 200, None)>>),
             Some(ThreadContext(Some(<<Some("/a")>>), None)))
TB == Thread("b", None, 1, Undefined, None)
TC == Thread("c", Some("C"), 2, NotArray, None)
TD == Thread("a", Some("D"), 1, Array(<<>>), None)

BA == Tab(Some("t"), Some("t"), "T", 2,
          <<Bubble("user", Some("Hi"), None, Some(<<Some("x")>>)),
            Bubble("ai", Some("Hello"), Some(5000), None)>>)
\* a tab as the editor stores it: keyed by tabId, with no id
BB == Tab(None, Some("u"), "U", 1, <<Bubble("user", Some(""), None, None)>>)
BC == Tab(Some("a"), Some("x"), "X", 2, <<>>)

Workspace(isDirectory, store, workspaceJson, composerData, chatData) ==
    [name |-> "", isDirectory |-> isDirectory, store |-> store,
     workspaceJson |-> workspaceJson, composerData |-> composerData,
     chatData |-> chatData]

Workspaces ==
    {Workspace(FALSE, "missing", NoJson, NoBlob, NoBlob),
     Workspace(TRUE, "missing", NoJson, NoBlob, NoBlob),
     Workspace(TRUE, "cantopen", NoJson, NoBlob, NoBlob),
     Workspace(TRUE, "notadb", NoJson, NoBlob, NoBlob),
     Workspace(TRUE, "ok", NoJson, NoBlob, NoBlob),
     Workspace(TRUE, "ok", NoJson, ComposerData(Some(<<TA, TB>>)), ChatData(Some(<<BA>>))),
     Workspace(TRUE, "ok", WorkspaceJson(Some("/proj")),
               ComposerData(Some(<<TD, TA>>)), ChatData(Some(<<BA>>))),
     Workspace(TRUE, "ok", WorkspaceJson(None), ComposerData(Some(<<TB>>)), ChatData(None)),
     Workspace(TRUE, "ok", NoJson, NoBlob, ChatData(Some(<<BB, BC>>))),
     Workspace(TRUE, "ok", NoJson, Malformed, ChatData(Some(<<BA>>))),
     Workspace(TRUE, "ok", NoJson, ComposerData(Some(<<TA>>)), Malformed),
     Workspace(TRUE, "ok", NoJson, ComposerData(None), NoBlob),
     Workspace(TRUE, "ok", NoJson, ComposerData(Some(<<TC>>)), NoBlob)}

WorkspaceNames == <<"w1", "w2", "w3", "w4">>

\* directory listings: at most MaxWorkspaces entries, named by position
Directories ==
    {[i \in 1..Len(ws) |-> [ws[i] EXCEPT !.name = WorkspaceNames[i]]] :
        ws \in SeqUpTo(Workspaces, MaxWorkspaces)}

FlagParams == {None, Some("false"), Some("true"), Some("0")}
Clock == {3, 4}
LookupIds == {"a", "c", "t", "u", "x"}
WorkspaceIdParams == {None, Some(""), Some("w1"), Some("w2"), Some("w9")}
TypeParams == {None, Some(""), Some("chat"), Some("composer"), Some("other")}

NoRequest == [kind |-> "none"]
NoResponse == [kind |-> "none"]

Init ==
    /\ entries \in Directories
    /\ request = NoRequest
    /\ response = NoResponse
    /\ dbLog = <<>>
    /\ raw = NoRaw
    /\ canon = NotRun
    /\ page = PageLoaded

Export ==
    /\ request = NoRequest
    /\ \E includeChats \in FlagParams, includeComposers \in FlagParams, now \in Clock :
         \E r \in {ExportGET(entries, includeChats, includeComposers, FALSE, now)} :
             /\ request' = [kind |-> "export", bs3 |-> FALSE, includeChats |-> includeChats,
                            includeComposers |-> includeComposers, now |-> now]
             /\ response' = r.response
             /\ dbLog' = r.calls
    /\ UNCHANGED <<entries, raw, canon, page>>

ExportBs3 ==
    /\ request = NoRequest
    /\ \E includeChats \in FlagParams, includeComposers \in FlagParams, now \in Clock :
         \E r \in {ExportGET(entries, includeChats, includeComposers, TRUE, now)} :
             /\ request' = [kind |-> "export", bs3 |-> TRUE, includeChats |-> includeChats,
                            includeComposers |-> includeComposers, now |-> now]
             /\ response' = r.response
             /\ dbLog' = r.calls
    /\ UNCHANGED <<entries, raw, canon, page>>

\* (mutant) the message list put in place of a non-array one is written back
\* to the store
LookupWritesBack ==
    /\ request = NoRequest
    /\ \E id \in LookupIds, workspaceId \in WorkspaceIdParams, type \in TypeParams :
         \E r \in {LookupGET(entries, id, workspaceId, type)} :
             /\ request' = [kind |-> "lookup", id |-> id, workspaceId |-> workspaceId,
                            type |-> type]
             /\ response' = r.response
             /\ dbLog' = r.calls
             /\ entries' =
                  IF r.response.status = 200 /\ type = Some("composer")
                  THEN [i \in 1..Len(entries) |->
                          IF entries[i].name = The(workspaceId)
                          THEN [entries[i] EXCEPT !.composerData.allComposers =
                                  Some([k \in 1..Len(The(@)) |->
                                          EnsureConversationArray(The(@)[k])])]
                          ELSE entries[i]]
                  ELSE entries
    /\ UNCHANGED <<raw, canon, page>>

Lookup ==
    /\ request = NoRequest
    /\ \E id \in LookupIds, workspaceId \in WorkspaceIdParams, type \in TypeParams :
         \E r \in {LookupGET(entries, id, workspaceId, type)} :
             /\ request' = [kind |-> "lookup", id |-> id, workspaceId |-> workspaceId,
                            type |-> type]
             /\ response' = r.response
             /\ dbLog' = r.calls
    /\ UNCHANGED <<entries, raw, canon, page>>

\* the response is sent
Respond ==
    /\ request # NoRequest
    /\ request' = NoRequest
    /\ response' = NoResponse
    /\ dbLog' = <<>>
    /\ UNCHANGED <<entries, raw, canon, page>>

Next == Export \/ ExportBs3 \/ Lookup \/ Respond

Spec == Init /\ [][Next]_vars

(***************************************************************************)
(* Properties of the request handlers (checked under Spec).                *)
(***************************************************************************)
IsExport == request.kind = "export"
IsLookup == request.kind = "lookup"
WithChats == IsExport /\ request.includeChats # Some("false")
WithComposers == IsExport /\ request.includeComposers # Some("false")

\* the entries whose processing raises no error under the request's flags
ReadWithoutFailure ==
    SelectSeq(entries,
              LAMBDA e : ExportEntry(e, WithChats, WithComposers, request.bs3).kind = "return")

\* C1: a workspace whose store cannot be opened or whose blob cannot be
\* parsed contributes nothing, and the export still answers with a success
\* envelope holding the conversations of every workspace read without
\* failure (an empty envelope when every workspace fails).
C1_PartialFailure ==
    IsExport =>
        /\ response.status = 200
        /\ response.body.conversations =
             ExportGET(ReadWithoutFailure, request.includeChats, request.includeComposers,
                       request.bs3, request.now).response.body.conversations

\* the id of a conversation as it appears in the lookup URL
IdParam(id) == IF IsSome(id) THEN The(id) ELSE "undefined"

\* C2: every conversation c of a full export is found by the lookup with
\* id = c.id, type = c.type, workspaceId = c.workspace.id, which returns a
\* conversation whose id equals c.id.
C2_RoundTrip ==
    (IsExport /\ WithChats /\ WithComposers /\ response.status = 200) =>
        \A k \in 1..Len(response.body.conversations) :
            LET c == response.body.conversations[k]
                found == LookupGET(entries, IdParam(c.id), Some(c.workspace.id),
                                   Some(c.type)).response
            IN  /\ found.status = 200
                /\ found.body.metadata.id = c.id

\* the stored record a successful lookup has found: the first one of the
\* requested type in the requested workspace whose identifying field is the id
LookedUpEntry == EntryOf(entries, The(request.workspaceId))
LookedUpRecord ==
    IF The(request.type) = "composer"
    THEN LET all == The(LookedUpEntry.composerData.allComposers)
         IN  all[CHOOSE i \in 1..Len(all) :
                    /\ all[i].composerId = Some(request.id)
                    /\ \A j \in 1..(i - 1) : all[j].composerId # Some(request.id)]
    ELSE LET tabs == The(LookedUpEntry.chatData.tabs)
         IN  tabs[CHOOSE i \in 1..Len(tabs) :
                    /\ tabs[i].tabId = Some(request.id)
                    /\ \A j \in 1..(i - 1) : tabs[j].tabId # Some(request.id)]

LookupFound == IsLookup /\ response.status = 200

Opens == SelectSeq(dbLog, LAMBDA call : call.op = "open")
Closes == SelectSeq(dbLog, LAMBDA call : call.op = "close")

\* C4: every store handle a request opens is closed before its response
\* is returned, on every exit path.
C4_HandlesClosed ==
    request # NoRequest =>
        /\ Len(Opens) = Len(Closes)
        /\ \A i \in 1..Len(Opens) : Closes[i].ws = Opens[i].ws

\* the title bulk export gives a raw thread
RawTitle(thread) == IF TruthyStr(thread.name) THEN The(thread.name) ELSE "Untitled"

\* the conversations of one entry in enumeration order, threads before chat
\* tabs, each as <<workspace, type, title, lastUpdatedAt>>
EnumerateEntry(e) ==
    LET threads == IF WithComposers /\ e.composerData.kind = "json"
                   THEN The(e.composerData.allComposers) ELSE <<>>
        tabs == IF WithChats /\ e.chatData.kind = "json" /\ IsSome(e.chatData.tabs)
                THEN The(e.chatData.tabs) ELSE <<>>
    IN  IF ~e.isDirectory \/ e.store = "missing" THEN <<>>
        ELSE [i \in 1..Len(threads) |->
                <<e.name, "composer", RawTitle(threads[i]), threads[i].lastUpdatedAt>>]
             \o [i \in 1..Len(tabs) |-> <<e.name, "chat", tabs[i].title, tabs[i].timestamp>>]

RECURSIVE EnumerationFrom(_)
EnumerationFrom(i) ==
    IF i > Len(entries) THEN <<>> ELSE EnumerateEntry(entries[i]) \o EnumerationFrom(i + 1)

Exported ==
    [k \in 1..Len(response.body.conversations) |->
        LET c == response.body.conversations[k]
        IN  <<c.workspace.id, c.type, c.title, c.lastUpdatedAt>>]

\* C5: the envelope's conversations are ordered by lastUpdatedAt
\* non-increasing, and conversations with equal lastUpdatedAt keep their
\* enumeration order (directory order, threads before chat tabs, raw order).
C5_SortedStable ==
    (IsExport /\ response.status = 200) =>
        /\ \A k \in 1..(Len(Exported) - 1) : Exported[k][4] >= Exported[k + 1][4]
        /\ \A t \in {Exported[k][4] : k \in 1..Len(Exported)} :
              SelectSeq(Exported, LAMBDA x : x[4] = t)
                = SelectSeq(EnumerationFrom(1), LAMBDA x : x[4] = t)
        /\ Len(Exported) = Len(EnumerationFrom(1))

C5_Witness ==
    /\ IsExport /\ response.status = 200
    /\ \E j, k \in 1..Len(Exported) :
          /\ j < k
          /\ Exported[j][4] = Exported[k][4]
          /\ Exported[j][2] = "composer" /\ Exported[k][2] = "chat"
    /\ \E j, k \in 1..Len(EnumerationFrom(1)) :
          j < k /\ EnumerationFrom(1)[j][4] < EnumerationFrom(1)[k][4]

(***************************************************************************)
(* Properties of the normalizers (checked under SpecNormalize).            *)
(***************************************************************************)
RawBubblesOfTab == raw.value.bubbles
KeptBubblesOfTab == SelectSeq(RawBubblesOfTab, LAMBDA b : TruthyStr(b.text))
RawItems ==
    IF raw.value.conversation.kind = "array" THEN raw.value.conversation.items ELSE <<>>

\* the raw texts that became messages, in raw order
SourceTexts ==
    IF raw.kind = "thread"
    THEN [i \in 1..Len(RawItems) |-> RawItems[i].text]
    ELSE [i \in 1..Len(KeptBubblesOfTab) |-> KeptBubblesOfTab[i].text]

TotalLength == SumSeq([i \in 1..Len(SourceTexts) |-> Len(The(SourceTexts[i]))])

\* C6: every chat bubble that becomes a message carries its own explicit
\* timestamp when it has one, and otherwise the tab's anchor timestamp plus
\* 1000 ms times its zero-based index in the raw bubble list.
C6_BubbleTimestamp ==
    (HasCanon /\ raw.kind = "tab") =>
        \A i \in 1..Len(RawBubblesOfTab) :
            TruthyStr(RawBubblesOfTab[i].text) =>
                \E k \in 1..Len(Canon.messages) :
                    /\ Canon.messages[k].id = <<raw.value.id, i - 1>>
                    /\ Canon.messages[k].timestamp =
                         IF IsSome(RawBubblesOfTab[i].timestamp)
                         THEN The(RawBubblesOfTab[i].timestamp)
                         ELSE raw.value.timestamp + 1000 * (i - 1)

\* C7 as stated: averageMessageLength is 0 if and only if messageCount is 0.
C7_ZeroIffEmpty ==
    HasCanon =>
        (Canon.summary.averageMessageLength = 0 <=> Canon.summary.messageCount = 0)

\* C7 as amended: messageCount 0 gives averageMessageLength 0; for a chat
\* conversation the converse holds; for a composer conversation
\* averageMessageLength is 0 exactly when twice the total content length is
\* less than messageCount (so also when every message has empty text).
C7_ZeroAverage ==
    HasCanon =>
        /\ Canon.summary.messageCount = 0 => Canon.summary.averageMessageLength = 0
        /\ Canon.type = "chat" =>
             (Canon.summary.averageMessageLength = 0 => Canon.summary.messageCount = 0)
        /\ Canon.type = "composer" =>
             (Canon.summary.averageMessageLength = 0
                <=> 2 * TotalLength < Canon.summary.messageCount
                    \/ Canon.summary.messageCount = 0)

C7_Witness ==
    /\ HasCanon
    /\ Canon.type = "composer"
    /\ Canon.summary.messageCount > 0
    /\ Canon.summary.averageMessageLength = 0

\* C8: with n > 0 messages of total content length s, averageMessageLength
\* is s / n rounded half up: the integer r with r - 1/2 <= s/n < r + 1/2;
\* messages of lengths 2 and 5 give 4.
C8_RoundHalfUp ==
    (HasCanon /\ Canon.summary.messageCount > 0) =>
        LET n == Canon.summary.messageCount
            r == Canon.summary.averageMessageLength
        IN  /\ 2 * n * r - n <= 2 * TotalLength
            /\ 2 * TotalLength < 2 * n * r + n
            /\ SourceTexts = <<Some("Hi"), Some("Hello")>> => r = 4

C8_Witness ==
    /\ HasCanon
    /\ SourceTexts = <<Some("Hi"), Some("Hello")>>
    /\ Canon.summary.messageCount = 2
    /\ Canon.summary.averageMessageLength = 4

\* C9: userMessageCount + assistantMessageCount = messageCount = the length
\* of the message list.
C9_CountsAddUp ==
    HasCanon =>
        /\ Canon.summary.userMessageCount + Canon.summary.assistantMessageCount
             = Canon.summary.messageCount
        /\ Canon.summary.messageCount = Len(Canon.messages)

C9_Witness ==
    /\ HasCanon
    /\ Canon.summary.userMessageCount > 0
    /\ Canon.summary.assistantMessageCount > 0
    /\ \E i \in 1..Len(RawItems) : RawItems[i].type = 3

\* the paths of a raw context's file selections
PathsOf(context) ==
    LET fs == IF IsSome(context) /\ IsSome(The(context).fileSelections)
              THEN The(The(context).fileSelections) ELSE <<>>
    IN  {The(fs[i]) : i \in {j \in 1..Len(fs) : IsSome(fs[j])}}

ThreadPaths == PathsOf(raw.value.context)
MessagePaths == UNION {PathsOf(RawItems[i].context) : i \in 1..Len(RawItems)}

\* C10: filesReferenced of a composer conversation holds each path at most
\* once, and its elements are exactly the paths of the thread-level context
\* and of every message's context.
C10_FilesReferenced ==
    (HasCanon /\ Canon.type = "composer") =>
        LET files == Canon.summary.filesReferenced
        IN  /\ \A i, j \in 1..Len(files) : files[i] = files[j] => i = j
            /\ {files[i] : i \in 1..Len(files)} = ThreadPaths \cup MessagePaths

C10_Witness ==
    /\ HasCanon
    /\ Canon.type = "composer"
    /\ ThreadPaths \cap MessagePaths # {}
    /\ Len(Canon.summary.filesReferenced) = Cardinality(ThreadPaths \cup MessagePaths)

(***************************************************************************)
(* Roles and message order (checked under SpecNormalize).                  *)
(***************************************************************************)
\* the raw bubble a chat message was built from: its id ends in the bubble's
\* zero-based index
BubbleOf(message) == RawBubblesOfTab[message.id[2] + 1]

\* C11: every normalized message has role "user" or "assistant"; a thread
\* message is "user" exactly when its raw type is 1, a chat message is
\* "assistant" exactly when its raw bubble type is "ai".
C11_RolesClosed ==
    HasCanon =>
        \A k \in 1..Len(Canon.messages) :
            LET m == Canon.messages[k]
            IN  /\ m.role \in {"user", "assistant"}
                /\ raw.kind = "thread" => (m.role = "user" <=> RawItems[k].type = 1)
                /\ raw.kind = "tab" => (m.role = "assistant" <=> BubbleOf(m).type = "ai")

C11_Witness ==
    /\ HasCanon
    /\ raw.kind = "tab"
    /\ \E k \in 1..Len(Canon.messages) :
          BubbleOf(Canon.messages[k]).type = "system" /\ Canon.messages[k].role = "user"

(***************************************************************************)
(* Properties of the lookup and export handlers, continued (checked under  *)
(* Spec).                                                                  *)
(***************************************************************************)
\* a lookup that passed validation and whose workspace has a store
ValidLookup ==
    /\ IsLookup
    /\ TruthyStr(request.workspaceId) /\ TruthyStr(request.type)
    /\ The(request.type) \in {"chat", "composer"}
LookupInExistingStore == ValidLookup /\ StoreExists(entries, The(request.workspaceId))

\* the ids of the threads stored in an entry, and of its chat tabs (a tab is
\* known by its tabId and by its id)
ThreadIds(e) ==
    IF e.composerData.kind = "json" /\ IsSome(e.composerData.allComposers)
    THEN {The(e.composerData.allComposers)[i].composerId :
            i \in 1..Len(The(e.composerData.allComposers))}
    ELSE {}
TabIds(e) ==
    IF e.chatData.kind = "json" /\ IsSome(e.chatData.tabs)
    THEN {The(e.chatData.tabs)[i].tabId : i \in 1..Len(The(e.chatData.tabs))}
         \cup {The(e.chatData.tabs)[i].id : i \in 1..Len(The(e.chatData.tabs))}
    ELSE {}

\* the requested id exists only among the records of the other type
OnlyOtherType ==
    /\ LookupInExistingStore
    /\ IF The(request.type) = "chat"
       THEN Some(request.id) \in ThreadIds(LookedUpEntry) \ TabIds(LookedUpEntry)
       ELSE Some(request.id) \in TabIds(LookedUpEntry) \ ThreadIds(LookedUpEntry)

\* the stored value of the requested type, and whether reading it succeeds
RequestedBlob ==
    IF The(request.type) = "composer" THEN LookedUpEntry.composerData
    ELSE LookedUpEntry.chatData
RequestedReadable ==
    /\ LookedUpEntry.store = "ok"
    /\ \/ RequestedBlob.kind = "none"
       \/ /\ RequestedBlob.kind = "json"
          /\ IF The(request.type) = "composer" THEN IsSome(RequestedBlob.allComposers)
             ELSE IsSome(RequestedBlob.tabs)

\* C12 as stated: a lookup of one type for an id that exists only among the
\* records of the other type fails with NotFound.
C12_CrossTypeNotFound == OnlyOtherType => response.status = 404

\* C12 as amended: such a lookup never succeeds; it fails with NotFound when
\* the collection of the requested type is read without failure and with the
\* server error when reading it fails; and a successful lookup returns a
\* record whose id is among those of the requested type.
C12_CrossTypeNeverFound ==
    /\ OnlyOtherType =>
          /\ response.status # 200
          /\ RequestedReadable => response.status = 404
          /\ ~RequestedReadable => response.status = 500
    /\ LookupFound =>
          Some(request.id) \in (IF The(request.type) = "composer"
                               THEN ThreadIds(LookedUpEntry) ELSE TabIds(LookedUpEntry))

C12_Witness ==
    /\ OnlyOtherType
    /\ The(request.type) = "chat"
    /\ RequestedBlob.kind = "json"
    /\ response.status = 404
    /\ response.body.error = "Conversation not found"

\* a workspace directory that has no store
HasNoStore(e) == e.isDirectory /\ e.store = "missing"
EntriesWithStore == SelectSeq(entries, LAMBDA e : ~HasNoStore(e))

\* C13: a workspace directory without a store contributes nothing to a bulk
\* export and does not make it fail: the export answers as it does over the
\* directory without such workspaces, with a success envelope when no other
\* workspace fails; a lookup that targets such a workspace fails with NotFound
\* and opens no store.
C13_NoStore ==
    /\ IsExport =>
          /\ response = ExportGET(EntriesWithStore, request.includeChats,
                                  request.includeComposers, request.bs3,
                                  request.now).response
          /\ \A i \in 1..Len(dbLog) :
                \A j \in 1..Len(entries) :
                    HasNoStore(entries[j]) => dbLog[i].ws # entries[j].name
          /\ (\A j \in 1..Len(entries) : entries[j].store \in {"missing", "ok"}
                 /\ entries[j].composerData.kind = "none"
                 /\ entries[j].chatData.kind = "none")
             => response.status = 200
    /\ (ValidLookup /\ \E j \in 1..Len(entries) :
                          /\ entries[j].name = The(request.workspaceId)
                          /\ HasNoStore(entries[j]))
          => /\ response = LookupError(404, "Workspace not found")
             /\ dbLog = <<>>

C13_Witness ==
    /\ IsExport
    /\ \E j \in 1..Len(entries) : HasNoStore(entries[j])
    /\ response.status = 200
    /\ Len(response.body.conversations) > 0

\* the stored chat tabs of the directory hold a bubble that becomes a message
StoresHoldChatMessages ==
    \E j \in 1..Len(entries) :
        /\ entries[j].store = "ok" /\ entries[j].chatData.kind = "json"
        /\ IsSome(entries[j].chatData.tabs)
        /\ \E i \in 1..Len(The(entries[j].chatData.tabs)) :
              KeptBubbles(The(entries[j].chatData.tabs)[i].bubbles) # <<>>

\* C14: an export with includeChats false returns no conversation of type
\* "chat" and one with includeComposers false none of type "composer"; in
\* every export totalConversations is the length of the returned list and
\* totalMessages the sum of summary.messageCount over the returned
\* conversations.
C14_FlagsAndTotals ==
    (IsExport /\ response.status = 200) =>
        LET cs == response.body.conversations
        IN  /\ request.includeChats = Some("false") =>
                  \A k \in 1..Len(cs) : cs[k].type = "composer"
            /\ request.includeComposers = Some("false") =>
                  \A k \in 1..Len(cs) : cs[k].type = "chat"
            /\ response.body.totalConversations = Len(cs)
            /\ response.body.totalMessages =
                  SumSeq([k \in 1..Len(cs) |-> cs[k].summary.messageCount])

C14_Witness ==
    /\ IsExport /\ response.status = 200
    /\ request.includeChats = Some("false")
    /\ request.includeComposers # Some("false")
    /\ StoresHoldChatMessages
    /\ Len(response.body.conversations) > 1
    /\ response.body.totalMessages > 0
    /\ response.body.totalMessages # Len(response.body.conversations)

\* the value stored under `key` was read from every store the request has
\* finished with
ReadFromEveryStore(key) ==
    \A i \in 1..Len(dbLog) :
        dbLog[i].op = "close" =>
            \E j \in 1..(i - 1) : dbLog[j] = GetCall(dbLog[i].ws, key)
NeverRead(key) ==
    \A i \in 1..Len(dbLog) : dbLog[i].op = "get" => dbLog[i].key # key

\* the answer to the request with one flag's query value replaced
AnswerWith(includeChats, includeComposers) ==
    ExportGET(entries, includeChats, includeComposers, request.bs3, request.now)

\* C15: an inclusion flag is false exactly when its query value is the
\* literal "false": then its collection is never read; for every other value
\* and when the parameter is absent the collection is read from every store
\* and the answer is that of the request without the parameter.
C15_FlagParsing ==
    IsExport =>
        /\ request.includeChats = Some("false") => NeverRead(CHAT_KEY)
        /\ request.includeChats # Some("false") =>
              /\ ReadFromEveryStore(CHAT_KEY)
              /\ response = AnswerWith(None, request.includeComposers).response
        /\ request.includeComposers = Some("false") => NeverRead(COMPOSER_KEY)
        /\ request.includeComposers # Some("false") =>
              /\ ReadFromEveryStore(COMPOSER_KEY)
              /\ response = AnswerWith(request.includeChats, None).response

C15_Witness ==
    /\ IsExport /\ response.status = 200
    /\ request.includeChats = Some("0")
    /\ request.includeComposers = Some("false")
    /\ Len(response.body.conversations) > 0
    /\ \E i \in 1..Len(dbLog) : dbLog[i].op = "close"

\* a required query value is missing (absent or empty)
MissingWorkspaceId == IsLookup /\ ~TruthyStr(request.workspaceId)
MissingType == IsLookup /\ ~TruthyStr(request.type)
InvalidType ==
    IsLookup /\ TruthyStr(request.type) /\ The(request.type) \notin {"chat", "composer"}

\* C16: a lookup whose workspaceId or type is missing, or whose type is
\* neither "chat" nor "composer", is answered 400 whatever the id and the
\* directory are, and no store call is made.
C16_ValidationFirst ==
    (MissingWorkspaceId \/ MissingType \/ InvalidType) =>
        /\ response.status = 400
        /\ dbLog = <<>>
        /\ \A id \in LookupIds :
              response = LookupGET(<<>>, id, request.workspaceId, request.type).response

C16_Witness ==
    /\ InvalidType
    /\ ~MissingWorkspaceId
    /\ ~StoreExists(entries, The(request.workspaceId))
    /\ response.status = 400
    /\ response.body.error = "Invalid type"

\* the answer to the request at hand with other query values
LookupAnswerWith(workspaceId, type) ==
    LookupGET(entries, request.id, workspaceId, type).response

\* C17: the message of a lookup rejected for a missing query value names
\* which of workspaceId and type is missing, so the message for a missing
\* workspaceId alone is not the message for a missing type alone; and the
\* error for an invalid type is distinct from the error for a missing value.
C17_MessageNamesMissing ==
    /\ (MissingWorkspaceId /\ ~MissingType) =>
          /\ response.status = 400
          /\ response.body.message # LookupAnswerWith(Some("w1"), None).body.message
    /\ (InvalidType /\ ~MissingWorkspaceId) =>
          /\ response.status = 400
          /\ response.body.error # LookupAnswerWith(None, request.type).body.error
          /\ response.body.message # LookupAnswerWith(None, request.type).body.message

\* C18: in a lookup whose targeted store exists, a failure while opening the
\* store, reading the value or parsing it (or using a parsed value that lacks
\* the collection) ends the request with the server error, never with
\* NotFound or success; and the server error has no other cause.
C18_StoreReadError ==
    LookupInExistingStore =>
        /\ ~RequestedReadable =>
              /\ response.status = 500
              /\ response.body.error = "Failed to fetch conversation"
        /\ RequestedReadable => response.status \in {200, 404}

C18_Witness ==
    /\ LookupInExistingStore
    /\ LookedUpEntry.store = "ok"
    /\ RequestedBlob.kind = "malformed"
    /\ response.status = 500

\* C19: no export or lookup request changes the contents of a workspace
\* store: every step leaves the directory's stored thread and chat-tab
\* collections as they were, and the only store calls a request makes are
\* open, the read of one of the two keys, and close.
C19_ReadOnly ==
    [][/\ entries' = entries
       /\ \A i \in 1..Len(dbLog') :
             \/ dbLog'[i].op \in {"open", "close"}
             \/ dbLog'[i].op = "get" /\ dbLog'[i].key \in {COMPOSER_KEY, CHAT_KEY}]_vars

\* a lookup has answered with a message list it replaced in its parsed copy
C19_Witness ==
    /\ LookupFound
    /\ response.body.conversation # LookedUpRecord
    /\ \E i \in 1..Len(dbLog) : dbLog[i].op = "get"

(***************************************************************************)
(* Message order (checked under SpecNormalize).                            *)
(***************************************************************************)
\* C20: the messages of a canonical conversation are in the order of the raw
\* messages or bubbles they were built from: message k of a thread is built
\* from raw message k, and the messages of a chat tab are built from the
\* bubbles with non-empty text, in increasing bubble index.
C20_OrderPreserved ==
    HasCanon =>
        IF raw.kind = "thread"
        THEN /\ Len(Canon.messages) = Len(RawItems)
             /\ \A k \in 1..Len(RawItems) :
                   /\ Canon.messages[k].content = RawItems[k].text
                   /\ Canon.messages[k].timestamp = RawItems[k].timestamp
                   /\ Canon.messages[k].role = ComposerRole(RawItems[k].type)
        ELSE /\ Len(Canon.messages) = Len(KeptBubblesOfTab)
             /\ \A k \in 1..Len(Canon.messages) :
                   /\ Canon.messages[k].content = KeptBubblesOfTab[k].text
                   /\ Canon.messages[k].content = BubbleOf(Canon.messages[k]).text
                   /\ \A l \in 1..(k - 1) :
                         Canon.messages[l].id[2] < Canon.messages[k].id[2]

C20_Witness ==
    /\ HasCanon
    /\ raw.kind = "tab"
    /\ Len(RawBubblesOfTab) = 3
    /\ ~TruthyStr(RawBubblesOfTab[2].text)
    /\ Len(Canon.messages) = 2
    /\ Canon.messages[1].content = Some("Hi")
    /\ Canon.messages[2].content = Some("Hello")

(***************************************************************************)
(* Properties of the export handler, continued (checked under Spec).       *)
(***************************************************************************)
\* the answer to the same export request made at time `now`
ExportAgainAt(now) ==
    ExportGET(entries, request.includeChats, request.includeComposers, request.bs3,
              now).response

\* C21: an export run again with the same flags over the same store contents,
\* at whatever time, gives the same status and, when it succeeds, the same
\* conversation list, totalConversations, totalMessages and metadata; only
\* the time of the export (exportedAt, exportedAtTimestamp) may differ.
C21_Idempotent ==
    IsExport =>
        \A now \in Clock :
            \E again \in {ExportAgainAt(now)} :
                /\ again.status = response.status
                /\ response.status = 200 =>
                      /\ again.body.conversations = response.body.conversations
                      /\ again.body.totalConversations = response.body.totalConversations
                      /\ again.body.totalMessages = response.body.totalMessages
                      /\ again.body.metadata = response.body.metadata
                      /\ DOMAIN again.body = DOMAIN response.body
                /\ response.status # 200 => again = response

C21_Witness ==
    /\ IsExport /\ response.status = 200
    /\ Len(response.body.conversations) > 1
    /\ \E now \in Clock :
          ExportAgainAt(now).body.exportedAtTimestamp # response.body.exportedAtTimestamp

(***************************************************************************)
(* Properties of the normalizers, continued (checked under                 *)
(* SpecNormalize).                                                         *)
(***************************************************************************)
\* the zero-based indices of the raw bubbles with non-empty text
NonEmptyBubbleIndices ==
    {i - 1 : i \in {j \in 1..Len(RawBubblesOfTab) : TruthyStr(RawBubblesOfTab[j].text)}}

\* C22: the messages of a chat conversation are exactly the bubbles with
\* non-empty text: every message has non-empty content, a bubble has a
\* message exactly when its text is non-empty, and messageCount is the number
\* of such bubbles.
C22_EmptyBubblesDropped ==
    (HasCanon /\ raw.kind = "tab") =>
        /\ \A k \in 1..Len(Canon.messages) : TruthyStr(Canon.messages[k].content)
        /\ {Canon.messages[k].id[2] : k \in 1..Len(Canon.messages)} = NonEmptyBubbleIndices
        /\ Canon.summary.messageCount = Cardinality(NonEmptyBubbleIndices)
        /\ Len(Canon.messages) = Cardinality(NonEmptyBubbleIndices)

C22_Witness ==
    /\ HasCanon
    /\ raw.kind = "tab"
    /\ \E i \in 1..Len(RawBubblesOfTab) : RawBubblesOfTab[i].text = Some("")
    /\ \E i \in 1..Len(RawBubblesOfTab) : RawBubblesOfTab[i].text = None
    /\ Canon.summary.messageCount = 1

\* the thread-level context carries at least one selection
ThreadHasSelection ==
    /\ IsSome(raw.value.context)
    /\ IsSome(The(raw.value.context).selections)
    /\ Len(The(The(raw.value.context).selections)) > 0

\* C23: hasCodeContext of a composer conversation is the boolean true when
\* filesReferenced is non-empty or the thread-level context carries at least
\* one selection, and the boolean false otherwise; it is never absent.
C23_HasCodeContextBoolean ==
    (HasCanon /\ Canon.type = "composer") =>
        Canon.summary.hasCodeContext =
            Some(Canon.summary.filesReferenced # <<>> \/ ThreadHasSelection)

\* a bubble of the raw tab carries a non-empty selection list
SomeBubbleHasSelection ==
    \E i \in 1..Len(RawBubblesOfTab) :
        /\ IsSome(RawBubblesOfTab[i].selections)
        /\ The(RawBubblesOfTab[i].selections) # <<>>

\* C24: hasCodeContext of a chat conversation is true if and only if at least
\* one bubble of the tab carries a non-empty selection list.
C24_ChatHasCodeContext ==
    (HasCanon /\ Canon.type = "chat") =>
        Canon.summary.hasCodeContext = Some(SomeBubbleHasSelection)

\* C25: a raw thread whose message list is absent or is no array is
\* normalized without failure to a conversation with an empty message list,
\* messageCount 0 and averageMessageLength 0.
C25_NoMessageList ==
    (canon.by = "processComposerChat" /\ raw.value.conversation.kind # "array") =>
        /\ Returned(canon.result)
        /\ Canon.messages = <<>>
        /\ Canon.summary.messageCount = 0
        /\ Canon.summary.averageMessageLength = 0

\* C26: the files list of a normalized message's context holds each path at
\* most once.
C26_MessageFilesUnique ==
    (HasCanon /\ Canon.type = "composer") =>
        \A k \in 1..Len(Canon.messages) :
            IsSome(Canon.messages[k].context.files) =>
                LET files == The(Canon.messages[k].context.files)
                IN  \A i, j \in 1..Len(files) : files[i] = files[j] => i = j

(***************************************************************************)
(* Folder metadata (checked under Spec).                                   *)
(***************************************************************************)
\* the directory with a readable folder-metadata file in every workspace
EntriesWithFolder ==
    [i \in 1..Len(entries) |->
        [entries[i] EXCEPT !.workspaceJson = WorkspaceJson(Some("/proj"))]]

\* C27: a workspace whose folder-metadata file is absent or unreadable is
\* processed like any other: the export has the status it has when every
\* metadata file is readable, and on success the same conversations in the
\* same order, those of such a workspace with an undefined folder.
C27_MissingFolderMetadata ==
    IsExport =>
        \E other \in {ExportGET(EntriesWithFolder, request.includeChats,
                                 request.includeComposers, request.bs3,
                                 request.now).response} :
            /\ other.status = response.status
            /\ response.status = 200 =>
                  /\ Len(response.body.conversations) = Len(other.body.conversations)
                  /\ \A k \in 1..Len(response.body.conversations) :
                        LET c == response.body.conversations[k]
                            e == EntryOf(entries, c.workspace.id)
                        IN  /\ [c EXCEPT !.workspace.folder = Some("/proj")]
                                 = other.body.conversations[k]
                            /\ e.workspaceJson.kind = "missing" => c.workspace.folder = None

C27_Witness ==
    /\ IsExport /\ response.status = 200
    /\ \E k \in 1..Len(response.body.conversations) :
          LET c == response.body.conversations[k]
          IN  /\ EntryOf(entries, c.workspace.id).workspaceJson.kind = "missing"
              /\ c.workspace.folder = None
              /\ c.summary.messageCount > 0

(***************************************************************************)
(* The export page: src/src/app/export/page.tsx.                           *)
(*                                                                         *)
(* handleExport runs up to its await of fetch inside the click event, and  *)
(* React renders the state it has set before the next event is handled;    *)
(* the rest of the call runs when the fetch settles, and the state it sets *)
(* is rendered later.  The server answers from a fixed workspace           *)
(* directory.                                                              *)
(***************************************************************************)
\* Boolean.prototype.toString
BoolToString(b) == IF b THEN "true" ELSE "false"

\* the arguments of the three buttons' onClick
Buttons == {<<TRUE, TRUE>>, <<FALSE, TRUE>>, <<TRUE, FALSE>>}

\* fetch(`/api/export?${params}`) answered at time now
FetchExport(call, now) ==
    ExportGET(entries, Some(BoolToString(call.includeChats)),
              Some(BoolToString(call.includeComposers)), FALSE, now).response

\* err.message of a fetch that rejects and of a body that is no JSON
FetchErrors == {"Failed to fetch", "Unexpected end of JSON input"}

InitPage ==
    /\ entries \in Directories
    /\ page = PageLoaded
    /\ request = NoRequest
    /\ response = NoResponse
    /\ dbLog = <<>>
    /\ raw = NoRaw
    /\ canon = NotRun

\* (mutant) the buttons are never disabled
handleExportAnyTime ==
    /\ \E b \in Buttons :
         page' = [page EXCEPT !.isExporting = TRUE, !.error = None, !.disabled = TRUE,
                              !.calls = Append(@, [includeChats |-> b[1],
                                                   includeComposers |-> b[2]])]
    /\ UNCHANGED <<entries, request, response, dbLog, raw, canon>>

\* a click on an enabled button: handleExport up to await fetch(...)
handleExport ==
    /\ ~page.disabled
    /\ \E b \in Buttons :
         page' = [page EXCEPT !.isExporting = TRUE, !.error = None, !.disabled = TRUE,
                              !.calls = Append(@, [includeChats |-> b[1],
                                                   includeComposers |-> b[2]])]
    /\ UNCHANGED <<entries, request, response, dbLog, raw, canon>>

\* the fetch resolves with response.ok: setExportData, the download, finally
FetchOk ==
    /\ page.calls # <<>>
    /\ \E now \in Clock :
         \E r \in {FetchExport(Head(page.calls), now)} :
             /\ r.status = 200
             /\ page' = [page EXCEPT !.exportData = Some(r.body), !.isExporting = FALSE,
                                      !.calls = Tail(@), !.outcome = "ok"]
    /\ UNCHANGED <<entries, request, response, dbLog, raw, canon>>

\* (mutant) a failed export also forgets the data of the last successful one
FetchNotOkClearsData ==
    /\ page.calls # <<>>
    /\ \E now \in Clock :
         \E r \in {FetchExport(Head(page.calls), now)} :
             /\ r.status # 200
             /\ page' = [page EXCEPT !.error = Some("Export failed"),
                                      !.exportData = None, !.isExporting = FALSE,
                                      !.calls = Tail(@), !.outcome = "failed"]
    /\ UNCHANGED <<entries, request, response, dbLog, raw, canon>>

\* the fetch resolves without response.ok: throw, catch, finally
FetchNotOk ==
    /\ page.calls # <<>>
    /\ \E now \in Clock :
         \E r \in {FetchExport(Head(page.calls), now)} :
             /\ r.status # 200
             /\ page' = [page EXCEPT !.error = Some("Export failed"),
                                      !.isExporting = FALSE,
                                      !.calls = Tail(@), !.outcome = "failed"]
    /\ UNCHANGED <<entries, request, response, dbLog, raw, canon>>

\* the fetch, or the reading of its body, rejects: catch, finally
FetchRejected ==
    /\ page.calls # <<>>
    /\ \E message \in FetchErrors :
         page' = [page EXCEPT !.error = Some(message), !.isExporting = FALSE,
                              !.calls = Tail(@), !.outcome = "failed"]
    /\ UNCHANGED <<entries, request, response, dbLog, raw, canon>>

\* React renders the buttons with disabled={isExporting}
Render ==
    /\ page.disabled # page.isExporting
    /\ page' = [page EXCEPT !.disabled = page.isExporting]
    /\ UNCHANGED <<entries, request, response, dbLog, raw, canon>>

NextPage == handleExport \/ FetchOk \/ FetchNotOk \/ FetchRejected \/ Render

SpecPage == InitPage /\ [][NextPage]_vars

(***************************************************************************)
(* Properties of the export page (checked under SpecPage).                 *)
(***************************************************************************)
\* C28: at most one handleExport call is in flight; isExporting is true
\* exactly while a call is in flight, so it is false again once the call has
\* ended, in success or in failure; and the buttons are disabled whenever it
\* is true.
C28_OneExportInFlight ==
    /\ Len(page.calls) <= 1
    /\ page.isExporting <=> page.calls # <<>>
    /\ page.isExporting => page.disabled
    /\ page.outcome # "none" /\ page.calls = <<>> => ~page.isExporting

\* a second call is in flight after a first one that failed
C28_Witness ==
    /\ page.isExporting
    /\ Len(page.calls) = 1
    /\ page.outcome = "failed"
    /\ page.disabled

C30_ChatIdsDistinct ==
    (HasCanon /\ raw.kind = "tab") =>
        /\ \A k, l \in 1..Len(Canon.messages) :
              Canon.messages[k].id = Canon.messages[l].id => k = l
        /\ \A k \in 1..Len(Canon.messages) :
              LET id == Canon.messages[k].id
              IN  /\ id[1] = raw.value.id
                  /\ id[2] \in 0..(Len(RawBubblesOfTab) - 1)
                  /\ TruthyStr(RawBubblesOfTab[id[2] + 1].text)
                  /\ Cardinality({j \in 1..id[2] : TruthyStr(RawBubblesOfTab[j].text)})
                       = k - 1

C30_Witness ==
    /\ HasCanon
    /\ raw.kind = "tab"
    /\ Len(RawBubblesOfTab) = 3
    /\ ~TruthyStr(RawBubblesOfTab[1].text)
    /\ Len(Canon.messages) = 2
    /\ Canon.messages[1].id = <<raw.value.id, 1>>
    /\ Canon.messages[2].id = <<raw.value.id, 2>>

====
